---------------------------- MODULE Spec2Model ----------------------------
(***************************************************************************)
(* Model of examples/capable/src/main.rs: the userspace half of the        *)
(* capable tracer.  main() is a straight-line startup sequence (argument   *)
(* parsing, memlock limit, open, configure, load, cgroup filter, attach,   *)
(* output file, perf buffer) followed by an unbounded poll loop whose      *)
(* callbacks render each sample to the console and to the output file.     *)
(* The kernel program and the per-CPU perf ring are the environment.       *)
(***************************************************************************)
EXTENDS Integers, Sequences, FiniteSets, TLC

VARIABLES
    pc,             \* position of main(): the next statement to execute
    exit,           \* "running", or how the process ended
    args,           \* the command line as given (never changes)
    opts,           \* the parsed Command (main.rs:149)
    memlock,        \* RLIMIT_MEMLOCK of the process
    skel,           \* skeleton lifecycle: "none", "open", "loaded", "attached"
    rodata,         \* open_skel.rodata().tool_config
    kernel_config,  \* what the kernel program read at load time
    load_calls,     \* history: the rodata seen by each invocation of load()
    cgroup_file,    \* the File opened on opts.cgroups_path
    cgroup_map,     \* the cgroup-filter table of the loaded program
    map_updates,    \* history: where main() was at each bpf_map_update_elem
    fs_file,        \* the output path on disk: whether it exists, and its lines
    file,           \* whether the append handle on the output file is open
    fs_touched,     \* history: whether main() has removed or created the output path
    console,        \* standard output: entries [line, src]
    stderr,         \* the diagnostic sink
    perf,           \* whether the perf buffer (ring consumer) is built
    ring,           \* per-CPU ring: records handed over by the kernel
    emitted,        \* history: per CPU, how many records the kernel program emitted
    delivered,      \* history: the samples passed to handle_event, in order
    polled          \* history: the timeout and the outcome of the last perf.poll

vars == << pc, exit, args, opts, memlock, skel, rodata, kernel_config,
           load_calls, cgroup_file, cgroup_map, map_updates, fs_file, file, fs_touched,
           console, stderr, perf, ring, emitted, delivered, polled >>

--------------------------------------------------------------------------
(* Bounds of the model *)

\* total number of records the kernel program emits in one run
MaxEvents == 2
\* samples one per-CPU ring holds before the kernel starts dropping
RingCap == 1

CPUs == {0, 1}

(* Program constants *)

MemlockLimit == 134217728
PollTimeoutMs == 100

\* no file descriptor
NoFd == "nofd"

--------------------------------------------------------------------------
(* The capability name registry *)

CAPS ==
    << "CAP_CHOWN", "CAP_DAC_OVERRIDE", "CAP_DAC_READ_SEARCH", "CAP_FOWNER",
       "CAP_FSETID", "CAP_KILL", "CAP_SETGID", "CAP_SETUID", "CAP_SETPCAP",
       "CAP_LINUX_IMMUTABLE", "CAP_NET_BIND_SERVICE", "CAP_NET_BROADCAST",
       "CAP_NET_ADMIN", "CAP_NET_RAW", "CAP_IPC_LOCK", "CAP_IPC_OWNER",
       "CAP_SYS_MODULE", "CAP_SYS_RAWIO", "CAP_SYS_CHROOT", "CAP_SYS_PTRACE",
       "CAP_SYS_PACCT", "CAP_SYS_ADMIN", "CAP_SYS_BOOT", "CAP_SYS_NICE",
       "CAP_SYS_RESOURCE", "CAP_SYS_TIME", "CAP_SYS_TTY_CONFIG", "CAP_MKNOD",
       "CAP_LEASE", "CAP_AUDIT_WRITE", "CAP_AUDIT_CONTROL", "CAP_SETFCAP",
       "CAP_MAC_OVERRIDE", "CAP_MAC_ADMIN", "CAP_SYSLOG", "CAP_WAKE_ALARM",
       "CAP_BLOCK_SUSPEND", "CAP_AUDIT_READ", "CAP_PERFMON", "CAP_BPF",
       "CAP_CHECKPOINT_RESTORE" >>

\* a variant of cap_name for a registry keyed 1..41
cap_name_FromOne(cap) ==
    IF cap >= 1 /\ cap <= Len(CAPS) THEN CAPS[cap] ELSE "?"

\* CAPS.get(&event.cap) with the None arm of main.rs:220-223; CAPS is keyed 0..40
cap_name(cap) ==
    IF cap >= 0 /\ cap < Len(CAPS) THEN CAPS[cap + 1] ELSE "?"

--------------------------------------------------------------------------
(* impl FromStr for uniqueness *)

Lower ==
    [c \in {"A","B","C","D","E","F","G","I","N","O","P","R","T","U"} |->
        CASE c = "A" -> "a" [] c = "B" -> "b" [] c = "C" -> "c"
          [] c = "D" -> "d" [] c = "E" -> "e" [] c = "F" -> "f"
          [] c = "G" -> "g" [] c = "I" -> "i" [] c = "N" -> "n"
          [] c = "O" -> "o" [] c = "P" -> "p" [] c = "R" -> "r"
          [] c = "T" -> "t" [] c = "U" -> "u"]

\* a variant of to_lowercase that leaves the token as it was given
to_lowercase_Keep(s) == s

\* str::to_lowercase over the letters the model's tokens use
to_lowercase(s) ==
    [i \in 1..Len(s) |-> IF s[i] \in DOMAIN Lower THEN Lower[s[i]] ELSE s[i]]

\* the message of the Err arm, word by word
UniqueErr ==
    << "Use", "1", "for", "pid", "(default),", "2", "for", "cgroups" >>

\* a variant of from_str that takes an unknown token for "off"
from_str_Lenient(unq_type) ==
    LET unq_type_lower == to_lowercase(unq_type) IN
    CASE unq_type_lower = << "p","i","d" >> ->
            [ok |-> TRUE, val |-> "UNQ_PID", err |-> << >>]
      [] unq_type_lower = << "c","g","r","o","u","p" >> ->
            [ok |-> TRUE, val |-> "UNQ_CGROUP", err |-> << >>]
      [] OTHER ->
            [ok |-> TRUE, val |-> "UNQ_OFF", err |-> << >>]

from_str(unq_type) ==
    LET unq_type_lower == to_lowercase(unq_type) IN
    CASE unq_type_lower = << "o","f","f" >> ->
            [ok |-> TRUE, val |-> "UNQ_OFF", err |-> << >>]
      [] unq_type_lower = << "p","i","d" >> ->
            [ok |-> TRUE, val |-> "UNQ_PID", err |-> << >>]
      [] unq_type_lower = << "c","g","r","o","u","p" >> ->
            [ok |-> TRUE, val |-> "UNQ_CGROUP", err |-> << >>]
      [] OTHER ->
            [ok |-> FALSE, val |-> "", err |-> UniqueErr]

\* default_value = "off" of --unique
DefaultUnique == << "o","f","f" >>

--------------------------------------------------------------------------
(* The event record shared with the kernel program, and its decoding *)

\* size of capable_bss_types::event: uid, tgid, pid (u32 each), comm[16],
\* cap (i32), audit, insetid (one byte each), padded to a multiple of four
RecordLen == 36
CommLen == 16

\* the four little-endian bytes of n (two's complement when n is negative)
LE32(n) ==
    << n % 256, (n \div 256) % 256, (n \div 65536) % 256,
       (n \div 16777216) % 256 >>

U32(data, off) ==
    data[off + 1] + 256 * data[off + 2] + 65536 * data[off + 3]
        + 16777216 * data[off + 4]

\* a little-endian i32: the top byte carries the sign
I32(data, off) ==
    data[off + 1] + 256 * data[off + 2] + 65536 * data[off + 3]
        + 16777216 * (IF data[off + 4] >= 128 THEN data[off + 4] - 256
                      ELSE data[off + 4])

PadComm(name) ==
    [i \in 1..CommLen |-> IF i <= Len(name) THEN name[i] ELSE 0]

\* the bytes the kernel program writes for one event
MkBuf(uid, tgid, pid, comm, cap, audit, insetid) ==
    LE32(uid) \o LE32(tgid) \o LE32(pid) \o PadComm(comm)
        \o LE32(cap)
        \o << (IF audit THEN 1 ELSE 0), (IF insetid THEN 1 ELSE 0), 0, 0 >>

\* plain::copy_from_bytes(&mut event, data): Err when data is shorter than
\* the struct, otherwise the struct is filled from the first RecordLen bytes
copy_from_bytes(data) ==
    IF Len(data) < RecordLen
    THEN [ok |-> FALSE]
    ELSE [ok      |-> TRUE,
          uid     |-> U32(data, 0),
          tgid    |-> U32(data, 4),
          pid     |-> U32(data, 8),
          comm    |-> SubSeq(data, 13, 12 + CommLen),
          cap     |-> I32(data, 28),
          audit   |-> data[33] # 0,
          insetid |-> data[34] # 0]

IsCont(b) == b >= 128 /\ b <= 191

\* std::str::from_utf8: whether the bytes are well-formed UTF-8
RECURSIVE from_utf8_ok(_)
from_utf8_ok(s) ==
    IF Len(s) = 0 THEN TRUE
    ELSE
      LET b == s[1]
          n == Len(s)
          Cont(i) == i <= n /\ IsCont(s[i])
          Rest(k) == from_utf8_ok(SubSeq(s, k + 1, n))
      IN
      CASE b < 128 -> Rest(1)
        [] b >= 194 /\ b <= 223 -> Cont(2) /\ Rest(2)
        [] b = 224 -> n >= 2 /\ s[2] >= 160 /\ s[2] <= 191 /\ Cont(3) /\ Rest(3)
        [] (b >= 225 /\ b <= 236) \/ b = 238 \/ b = 239 ->
               Cont(2) /\ Cont(3) /\ Rest(3)
        [] b = 237 -> n >= 2 /\ s[2] >= 128 /\ s[2] <= 159 /\ Cont(3) /\ Rest(3)
        [] b = 240 ->
               n >= 2 /\ s[2] >= 144 /\ s[2] <= 191 /\ Cont(3) /\ Cont(4) /\ Rest(4)
        [] b >= 241 /\ b <= 243 -> Cont(2) /\ Cont(3) /\ Cont(4) /\ Rest(4)
        [] b = 244 ->
               n >= 2 /\ s[2] >= 128 /\ s[2] <= 143 /\ Cont(3) /\ Cont(4) /\ Rest(4)
        [] OTHER -> FALSE

\* a variant of trim_end_matches_nul that cuts the text at its first zero byte
trim_end_matches_nul_CStr(s) ==
    IF \E i \in DOMAIN s : s[i] = 0
    THEN SubSeq(s, 1, (CHOOSE i \in DOMAIN s :
                          s[i] = 0 /\ \A j \in 1..(i - 1) : s[j] # 0) - 1)
    ELSE s

\* str::trim_end_matches(char::from(0))
RECURSIVE trim_end_matches_nul(_)
trim_end_matches_nul(s) ==
    IF Len(s) > 0 /\ s[Len(s)] = 0
    THEN trim_end_matches_nul(SubSeq(s, 1, Len(s) - 1))
    ELSE s

\* The buffers the kernel side hands over in this model
Buffers ==
    << MkBuf(0, 100, 101, << 105, 110, 105, 116 >>, 21, TRUE, FALSE),
       MkBuf(1000, 200, 201, << 115, 115, 104, 100 >>, 41, FALSE, TRUE),
       MkBuf(0, 300, 300, << 255, 254 >>, 0, FALSE, FALSE),
       SubSeq(MkBuf(0, 100, 101, << 105, 110, 105, 116 >>, 21, TRUE, FALSE),
              1, RecordLen - 1),
       MkBuf(0, 100, 101, << 105, 110, 105, 116 >>, 21, TRUE, FALSE)
           \o << 7, 7 >>,
       [i \in 1..RecordLen |-> 0],
       MkBuf(0, 1, 1, << 120 >>, -1, FALSE, FALSE),
       << >>,
       MkBuf(1, 2, 3, << 97, 98 >>, 40, TRUE, TRUE),
       MkBuf(0, 1, 1, << 120 >>, -2147483647 - 1, FALSE, FALSE),
       MkBuf(0, 1, 1, << 120 >>, 2147483647, FALSE, FALSE),
       MkBuf(0, 1, 1, << 97, 0, 98 >>, 0, FALSE, FALSE),
       MkBuf(0, 1, 1, [i \in 1..CommLen |-> 97], 0, FALSE, FALSE),
       MkBuf(0, 1, 1, << 195, 169 >>, 0, FALSE, FALSE),
       MkBuf(0, 1, 1, [i \in 1..CommLen |-> IF i = CommLen THEN 195 ELSE 97],
             0, FALSE, FALSE),
       [i \in 1..RecordLen + 4 |-> 0],
       MkBuf(1000, 200, 201, << 115, 115, 104, 100 >>, 41, FALSE, TRUE)
           \o << 1, 2, 3, 4 >> >>

\* what the attached kernel program emits into the ring in the run model
Emittable == {1, 3}

\* Local::now().format("%H:%M:%S") at the moment of the callback
Times == {"12:00:00", "12:00:01"}

--------------------------------------------------------------------------
(* Formatting: a line is the sequence of its formatted arguments, each with
   the width and alignment of its placeholder *)

S(w, a, s) == [w |-> w, a |-> a, t |-> "str", s |-> s, n |-> 0, b |-> << >>]
N(w, a, n) == [w |-> w, a |-> a, t |-> "int", s |-> "", n |-> n, b |-> << >>]
B(w, a, b) == [w |-> w, a |-> a, t |-> "bytes", s |-> "", n |-> 0, b |-> b]
Bool(w, a, v) == S(w, a, IF v THEN "true" ELSE "false")

\* a variant of Header that prints the standard columns whatever the flag
Header_Standard(extra_fields) ==
    << S(9, "", "TIME"), S(6, "", "UID"), S(6, "", "PID"),
       S(16, "", "COMM"), S(4, "", "CAP"), S(20, "", "NAME"),
       S(6, "", "AUDIT") >>

\* the header of print_banner and of the file header write
Header(extra_fields) ==
    IF extra_fields
    THEN << S(9, "", "TIME"), S(6, "", "UID"), S(6, "", "PID"),
            S(6, "", "TID"), S(16, "", "COMM"), S(4, "", "CAP"),
            S(20, "", "NAME"), S(6, "", "AUDIT"), S(0, "", "INSETID") >>
    ELSE << S(9, "", "TIME"), S(6, "", "UID"), S(6, "", "PID"),
            S(16, "", "COMM"), S(4, "", "CAP"), S(20, "", "NAME"),
            S(6, "", "AUDIT") >>

\* a variant of EventLine that prints the thread id under PID and the
\* process id under TID
EventLine_PidForTgid(extra_fields, now, event, comm_str, name) ==
    IF extra_fields
    THEN << S(9, "", now), N(6, "", event.uid), N(6, "<", event.pid),
            N(6, "<", event.tgid), B(16, "<", comm_str), N(4, "<", event.cap),
            S(20, "<", name), Bool(6, "<", event.audit),
            Bool(0, "", event.insetid) >>
    ELSE << S(9, "", now), N(6, "", event.uid), N(6, "<", event.pid),
            B(16, "<", comm_str), N(4, "<", event.cap), S(20, "<", name),
            Bool(6, "<", event.audit) >>

\* the event line of handle_event, the same format for both sinks
EventLine(extra_fields, now, event, comm_str, name) ==
    IF extra_fields
    THEN << S(9, "", now), N(6, "", event.uid), N(6, "<", event.tgid),
            N(6, "<", event.pid), B(16, "<", comm_str), N(4, "<", event.cap),
            S(20, "<", name), Bool(6, "<", event.audit),
            Bool(0, "", event.insetid) >>
    ELSE << S(9, "", now), N(6, "", event.uid), N(6, "<", event.tgid),
            B(16, "<", comm_str), N(4, "<", event.cap), S(20, "<", name),
            Bool(6, "<", event.audit) >>

LostMsg(cpu, count) ==
    << S(0, "", "Lost "), N(0, "", count), S(0, "", " events on CPU "),
       N(0, "", cpu) >>

FileErrMsg == << S(0, "", "Couldn't write to file: "), S(0, "", "io error") >>

ErrorMsg(what) == << S(0, "", "Error: "), S(0, "", what) >>

\* what structopt prints for an argument whose from_str returned Err(words)
ArgErrMsg(words) ==
    << S(0, "", "error: Invalid value for '--unique <unique-type>': ") >>
        \o [i \in 1..Len(words) |-> S(0, "", words[i])]

PanicMsg(what) == << S(0, "", "thread 'main' panicked: "), S(0, "", what) >>

\* a sink entry: the line, and (history) the sample it was rendered from
Entry(line, src) == [line |-> line, src |-> src]

NoSrc == << >>

--------------------------------------------------------------------------
(* Initial state: the process has been started with some command line *)

\* the --unique tokens of the run model; "off" is what a run without
\* --unique parses
Tokens ==
    { << "P","I","D" >>, << "C","g","r","o","u","p" >>,
      << "c","o","n","t","a","i","n","e","r" >> }

\* the upper-case form of the letters of off, pid and cgroup
Upper ==
    [c \in {"c","d","f","g","i","o","p","r","u"} |->
        CASE c = "c" -> "C" [] c = "d" -> "D" [] c = "f" -> "F"
          [] c = "g" -> "G" [] c = "i" -> "I" [] c = "o" -> "O"
          [] c = "p" -> "P" [] c = "r" -> "R" [] c = "u" -> "U"]

\* word w with each of its letters in either case
CaseVariants(w) ==
    { [i \in 1..Len(w) |-> IF m[i] THEN Upper[w[i]] ELSE w[i]] :
        m \in [1..Len(w) -> BOOLEAN] }

\* the --unique tokens of the parsing model: every case variant of the three
\* words, and tokens that are none of them
ParseTokens ==
    CaseVariants(<< "o","f","f" >>) \cup CaseVariants(<< "p","i","d" >>)
        \cup CaseVariants(<< "c","g","r","o","u","p" >>)
        \cup { << >>, << "1" >>, << "2" >>, << "p","i" >>,
               << "o","f","f","f" >>, << "O","F","F","F" >>,
               << "c","g","r","o","u","p","s" >>,
               << "b","y","p","i","d" >>,
               << "c","o","n","t","a","i","n","e","r" >> }

\* the --unique argument: given with a token, or left out
Given(token) == [given |-> TRUE, token |-> token]
NotGiven == [given |-> FALSE, token |-> << >>]

CommandLines ==
    [verbose : BOOLEAN, pid : {0, 1234}, extra_fields : BOOLEAN,
     unique : {Given(t) : t \in Tokens} \cup {NotGiven}]

NoOpts ==
    [verbose |-> FALSE, pid |-> 0, extra_fields |-> FALSE,
     unique_type |-> "UNQ_OFF"]

\* the .rodata image of the skeleton before main() writes to it
DefaultConfig == [tgid |-> 0, verbose |-> FALSE, unique_type |-> "UNQ_OFF"]

StaleFile ==
    [exists |-> TRUE, lines |-> << Entry(<< S(0, "", "stale") >>, NoSrc) >>]

NoFile == [exists |-> FALSE, lines |-> << >>]

Init ==
    /\ pc = "from_args"
    /\ exit = "running"
    /\ args \in CommandLines
    /\ opts = NoOpts
    /\ memlock = << >>
    /\ skel = "none"
    /\ rodata = DefaultConfig
    /\ kernel_config = << >>
    /\ load_calls = << >>
    /\ cgroup_file = NoFd
    /\ cgroup_map = [i \in {0} |-> NoFd]
    /\ map_updates = << >>
    /\ fs_file \in {NoFile, StaleFile}
    /\ file = FALSE
    /\ fs_touched = FALSE
    /\ console = << >>
    /\ stderr = << >>
    /\ perf = FALSE
    /\ ring = [c \in CPUs |-> << >>]
    /\ emitted = [c \in CPUs |-> 0]
    /\ delivered = << >>
    /\ polled = [timeout |-> 0, result |-> "none"]

ParseCommandLines ==
    [verbose : BOOLEAN, pid : {0, 1234}, extra_fields : BOOLEAN,
     unique : {Given(t) : t \in ParseTokens} \cup {NotGiven}]

\* the process has been started with a command line of the parsing model
InitParse ==
    /\ pc = "from_args"
    /\ exit = "running"
    /\ args \in ParseCommandLines
    /\ opts = NoOpts
    /\ memlock = << >>
    /\ skel = "none"
    /\ rodata = DefaultConfig
    /\ kernel_config = << >>
    /\ load_calls = << >>
    /\ cgroup_file = NoFd
    /\ cgroup_map = [i \in {0} |-> NoFd]
    /\ map_updates = << >>
    /\ fs_file \in {NoFile, StaleFile}
    /\ file = FALSE
    /\ fs_touched = FALSE
    /\ console = << >>
    /\ stderr = << >>
    /\ perf = FALSE
    /\ ring = [c \in CPUs |-> << >>]
    /\ emitted = [c \in CPUs |-> 0]
    /\ delivered = << >>
    /\ polled = [timeout |-> 0, result |-> "none"]

cfgVars == << args, opts, memlock, rodata, kernel_config, load_calls >>
cgVars == << cgroup_file, cgroup_map, map_updates >>
outVars == << fs_file, file, fs_touched, console >>
ringVars == << perf, ring, emitted, delivered, polled >>

\* main() returns Err(what): the runtime prints the error and the process ends
Fail(how, what) ==
    /\ pc' = "exit"
    /\ exit' = how
    /\ stderr' = Append(stderr, ErrorMsg(what))

\* a panic: the message goes to the diagnostic sink and the process ends
Panic(how, what) ==
    /\ pc' = "exit"
    /\ exit' = how
    /\ stderr' = Append(stderr, PanicMsg(what))

--------------------------------------------------------------------------
(* main(): startup *)

\* main.rs:149-154; a --unique that is left out is parsed from its default
FromArgs ==
    /\ pc = "from_args"
    /\ LET r == from_str(IF args.unique.given THEN args.unique.token
                         ELSE DefaultUnique)
       IN
       IF r.ok
       THEN /\ opts' = [verbose |-> args.verbose, pid |-> args.pid,
                        extra_fields |-> args.extra_fields,
                        unique_type |-> r.val]
            /\ pc' = "rlimit"
            /\ UNCHANGED << exit, stderr >>
       ELSE /\ pc' = "exit"
            /\ exit' = "err:args"
            /\ stderr' = Append(stderr, ArgErrMsg(r.err))
            /\ UNCHANGED opts
    /\ UNCHANGED << args, memlock, skel, rodata, kernel_config, load_calls >>
    /\ UNCHANGED << cgVars, outVars, ringVars >>

\* main.rs:156 and bump_memlock_rlimit
BumpMemlockRlimit ==
    /\ pc = "rlimit"
    /\ \/ /\ memlock' = Append(memlock,
                               [rlim_cur |-> MemlockLimit, rlim_max |-> MemlockLimit])
          /\ pc' = "open"
          /\ UNCHANGED << exit, stderr >>
       \/ /\ Fail("err:rlimit", "Failed to increase rlimit")
          /\ UNCHANGED memlock
    /\ UNCHANGED << args, opts, skel, rodata, kernel_config, load_calls >>
    /\ UNCHANGED << cgVars, outVars, ringVars >>

\* main.rs:159
Open ==
    /\ pc = "open"
    /\ \/ /\ skel' = "open"
          /\ pc' = "cfg_tgid"
          /\ UNCHANGED << exit, stderr >>
       \/ /\ Fail("err:open", "open")
          /\ UNCHANGED skel
    /\ UNCHANGED << cfgVars, cgVars, outVars, ringVars >>

\* a variant of ConfiguredTgid that leaves the filter at "no filter"
ConfiguredTgid_NoPid(o) == 0

\* the right-hand sides of main.rs:161-163
ConfiguredTgid(o) == o.pid
ConfiguredVerbose(o) == o.verbose
ConfiguredUniqueType(o) == o.unique_type

\* main.rs:161
ConfigTgid ==
    /\ pc = "cfg_tgid"
    /\ rodata' = [rodata EXCEPT !.tgid = ConfiguredTgid(opts)]
    /\ pc' = "cfg_verbose"
    /\ UNCHANGED << exit, stderr, skel, args, opts, memlock, kernel_config, load_calls >>
    /\ UNCHANGED << cgVars, outVars, ringVars >>

\* main.rs:162
ConfigVerbose ==
    /\ pc = "cfg_verbose"
    /\ rodata' = [rodata EXCEPT !.verbose = ConfiguredVerbose(opts)]
    /\ pc' = "cfg_unique"
    /\ UNCHANGED << exit, stderr, skel, args, opts, memlock, kernel_config, load_calls >>
    /\ UNCHANGED << cgVars, outVars, ringVars >>

\* main.rs:163
ConfigUniqueType ==
    /\ pc = "cfg_unique"
    /\ rodata' = [rodata EXCEPT !.unique_type = ConfiguredUniqueType(opts)]
    /\ pc' = "load"
    /\ UNCHANGED << exit, stderr, skel, args, opts, memlock, kernel_config, load_calls >>
    /\ UNCHANGED << cgVars, outVars, ringVars >>

\* main.rs:166: the kernel program takes its configuration from rodata now
Load ==
    /\ pc = "load"
    /\ load_calls' = Append(load_calls, rodata)
    /\ \/ /\ skel' = "loaded"
          /\ kernel_config' = << rodata >>
          /\ pc' = "cgroup_open"
          /\ UNCHANGED << exit, stderr >>
       \/ /\ Fail("err:load", "load")
          /\ UNCHANGED << skel, kernel_config >>
    /\ UNCHANGED << args, opts, memlock, rodata >>
    /\ UNCHANGED << cgVars, outVars, ringVars >>

\* a variant of CgroupOpen that reports a cgroup path it cannot open and
\* goes on without a cgroup file
CgroupOpen_Continue ==
    /\ pc = "cgroup_open"
    /\ \/ /\ cgroup_file' = "fd:cgroups_path"
          /\ UNCHANGED stderr
       \/ /\ stderr' = Append(stderr, ErrorMsg("Unable to open cgroupsPath"))
          /\ UNCHANGED cgroup_file
    /\ pc' = "map_update"
    /\ UNCHANGED << exit, skel, cgroup_map, map_updates >>
    /\ UNCHANGED << cfgVars, outVars, ringVars >>

\* main.rs:168-173
CgroupOpen ==
    /\ pc = "cgroup_open"
    /\ \/ /\ cgroup_file' = "fd:cgroups_path"
          /\ pc' = "map_update"
          /\ UNCHANGED << exit, stderr >>
       \/ /\ Panic("panic:cgroup", "Unable to open cgroupsPath")
          /\ UNCHANGED cgroup_file
    /\ UNCHANGED << skel, cgroup_map, map_updates >>
    /\ UNCHANGED << cfgVars, outVars, ringVars >>

\* bpf_map_update_elem(map, &key, &value, BPF_ANY): insert or overwrite
bpf_map_update_elem(map, key, value) == [map EXCEPT ![key] = value]

\* a variant of MapUpdate that goes on to attach without updating the table
MapUpdate_Skipped ==
    /\ pc = "map_update"
    /\ pc' = "attach"
    /\ UNCHANGED << exit, stderr, skel, cgroup_file, cgroup_map, map_updates >>
    /\ UNCHANGED << cfgVars, outVars, ringVars >>

\* main.rs:174-178: the return value of the update is not looked at
MapUpdate ==
    /\ pc = "map_update"
    /\ \E ok \in BOOLEAN :
         /\ cgroup_map' = IF ok THEN bpf_map_update_elem(cgroup_map, 0, cgroup_file)
                          ELSE cgroup_map
         /\ map_updates' = Append(map_updates,
                                  [skel |-> skel, key |-> 0, value |-> cgroup_file,
                                   ok |-> ok])
    /\ pc' = "attach"
    /\ UNCHANGED << exit, stderr, skel, cgroup_file >>
    /\ UNCHANGED << cfgVars, outVars, ringVars >>

\* main.rs:181
Attach ==
    /\ pc = "attach"
    /\ \/ /\ skel' = "attached"
          /\ pc' = "remove_file"
          /\ UNCHANGED << exit, stderr >>
       \/ /\ Fail("err:attach", "attach")
          /\ UNCHANGED skel
    /\ UNCHANGED << cfgVars, cgVars, outVars, ringVars >>

--------------------------------------------------------------------------
(* main(): the two sinks *)

\* a variant of ConsoleWrite that does not repeat a line already printed
ConsoleWrite_Dedup(out, entry) ==
    IF \E i \in DOMAIN out : out[i].line = entry.line THEN out
    ELSE Append(out, entry)

\* println!: one more line at the end of standard output
ConsoleWrite(out, entry) == Append(out, entry)

\* a variant of FileWrite for a handle opened without append(true) and
\* rewound: the line lands at the start of the file
FileWrite_AtStart(f, entry) == [f EXCEPT !.lines = << entry >> \o @]

\* writeln!(file, ..) on a handle opened with append(true)
FileWrite(f, entry) == [f EXCEPT !.lines = Append(@, entry)]

\* a variant of WriteLineToFile that unwraps the result of the write
WriteLineToFile_Unwrap(f, err, entry, ok) ==
    IF ok
    THEN [file |-> FileWrite(f, entry), err |-> err, panicked |-> FALSE]
    ELSE [file |-> f,
          err |-> Append(err, PanicMsg("called Result::unwrap() on an Err value")),
          panicked |-> TRUE]

\* `if let Err(e) = writeln!(file, ..) { eprintln!(..) }`, main.rs:196-202,
\* 204-210, 225-239, 253-259: a failed write is reported and nothing else
WriteLineToFile(f, err, entry, ok) ==
    IF ok
    THEN [file |-> FileWrite(f, entry), err |-> err, panicked |-> FALSE]
    ELSE [file |-> f, err |-> Append(err, FileErrMsg), panicked |-> FALSE]

\* a variant of RemoveFile that leaves an existing output file in place
RemoveFile_Keep ==
    /\ pc = "remove_file"
    /\ pc' = "banner"
    /\ UNCHANGED << exit, stderr, skel, fs_file, file, fs_touched, console >>
    /\ UNCHANGED << cfgVars, cgVars, ringVars >>

\* main.rs:183-185
RemoveFile ==
    /\ pc = "remove_file"
    /\ IF fs_file.exists
       THEN \/ /\ fs_file' = NoFile
               /\ fs_touched' = TRUE
               /\ pc' = "banner"
               /\ UNCHANGED << exit, stderr >>
            \/ /\ Panic("panic:remove_file", "called Result::unwrap() on an Err value")
               /\ UNCHANGED << fs_file, fs_touched >>
       ELSE /\ pc' = "banner"
            /\ UNCHANGED << exit, stderr, fs_file, fs_touched >>
    /\ UNCHANGED << skel, file, console >>
    /\ UNCHANGED << cfgVars, cgVars, ringVars >>

\* main.rs:187 and print_banner; println! panics when standard output fails
PrintBanner ==
    /\ pc = "banner"
    /\ \/ /\ console' = ConsoleWrite(console, Entry(Header(opts.extra_fields), NoSrc))
          /\ pc' = "open_file"
          /\ UNCHANGED << exit, stderr >>
       \/ /\ Panic("panic:stdout", "failed printing to stdout")
          /\ UNCHANGED console
    /\ UNCHANGED << skel, fs_file, file, fs_touched >>
    /\ UNCHANGED << cfgVars, cgVars, ringVars >>

\* main.rs:189-194: create(true).write(true).append(true), no truncation
OpenFile ==
    /\ pc = "open_file"
    /\ \/ /\ fs_file' = [fs_file EXCEPT !.exists = TRUE]
          /\ file' = TRUE
          /\ fs_touched' = TRUE
          /\ pc' = "file_header"
          /\ UNCHANGED << exit, stderr >>
       \/ /\ Panic("panic:open_file", "called Result::unwrap() on an Err value")
          /\ UNCHANGED << fs_file, file, fs_touched >>
    /\ UNCHANGED << skel, console >>
    /\ UNCHANGED << cfgVars, cgVars, ringVars >>

\* main.rs:195-211
FileHeader ==
    /\ pc = "file_header"
    /\ \E file_ok \in BOOLEAN :
         LET w == WriteLineToFile(fs_file, stderr,
                                  Entry(Header(opts.extra_fields), NoSrc), file_ok)
         IN
         /\ fs_file' = w.file
         /\ stderr' = w.err
         /\ IF w.panicked
            THEN pc' = "exit" /\ exit' = "panic:file"
            ELSE pc' = "build" /\ UNCHANGED exit
    /\ UNCHANGED << skel, file, fs_touched, console >>
    /\ UNCHANGED << cfgVars, cgVars, ringVars >>

--------------------------------------------------------------------------
(* The kernel side: the attached program emits records into the per-CPU
   perf ring.  A CPU's slot of the events table is empty until the perf
   buffer is built, and an output to an empty slot is discarded; once the
   ring exists a record is queued, or counted as lost when the ring is full *)

Sample(cpu, k, b) == [type |-> "sample", cpu |-> cpu, k |-> k, buf |-> b, count |-> 0]
Lost(cpu, n) == [type |-> "lost", cpu |-> cpu, k |-> 0, buf |-> 0, count |-> n]

Samples(q) == SelectSeq(q, LAMBDA r : r.type = "sample")

RECURSIVE LostCount(_)
LostCount(q) ==
    IF q = << >> THEN 0
    ELSE (IF Head(q).type = "lost" THEN Head(q).count ELSE 0) + LostCount(Tail(q))

TotalEmitted == emitted[0] + emitted[1]

RingPush(q, cpu, k, b) ==
    IF Len(Samples(q)) < RingCap
    THEN Append(q, Sample(cpu, k, b))
    ELSE IF q # << >> /\ q[Len(q)].type = "lost"
         THEN [q EXCEPT ![Len(q)].count = @ + 1]
         ELSE Append(q, Lost(cpu, 1))

KernelEmit(c, b) ==
    /\ skel = "attached"
    /\ exit = "running"
    /\ TotalEmitted < MaxEvents
    /\ emitted' = [emitted EXCEPT ![c] = @ + 1]
    /\ ring' = IF perf
               THEN [ring EXCEPT ![c] = RingPush(@, c, emitted[c] + 1, b)]
               ELSE ring
    /\ UNCHANGED << pc, exit, stderr, skel, perf, delivered, polled >>
    /\ UNCHANGED << cfgVars, cgVars, outVars >>

--------------------------------------------------------------------------
(* main(): the ring consumer *)

\* main.rs:266-269
BuildPerf ==
    /\ pc = "build"
    /\ \/ /\ perf' = TRUE
          /\ pc' = "poll"
          /\ UNCHANGED << exit, stderr >>
       \/ /\ Fail("err:build", "perf buffer")
          /\ UNCHANGED perf
    /\ UNCHANGED << skel, ring, emitted, delivered, polled >>
    /\ UNCHANGED << cfgVars, cgVars, outVars >>

\* a variant of handle_lost_events that reports the count only
handle_lost_events_NoCpu(err, cpu, count) ==
    Append(err, << S(0, "", "Lost "), N(0, "", count), S(0, "", " events") >>)

\* handle_lost_events, main.rs:144-146
handle_lost_events(err, cpu, count) == Append(err, LostMsg(cpu, count))

\* main.rs:272, the ring hands a lost-record to lost_cb
PollLost(c) ==
    /\ pc = "poll"
    /\ ring[c] # << >>
    /\ Head(ring[c]).type = "lost"
    /\ polled' = [timeout |-> PollTimeoutMs, result |-> "ok"]
    /\ ring' = [ring EXCEPT ![c] = Tail(@)]
    /\ stderr' = handle_lost_events(stderr, c, Head(ring[c]).count)
    /\ UNCHANGED << pc, exit, skel, perf, emitted, delivered >>
    /\ UNCHANGED << cfgVars, cgVars, outVars >>

\* a variant of PollSample that drops a sample whose buffer is too short
\* instead of panicking
PollSample_SkipShort(c) ==
    /\ pc = "poll"
    /\ ring[c] # << >>
    /\ Head(ring[c]).type = "sample"
    /\ polled' = [timeout |-> PollTimeoutMs, result |-> "ok"]
    /\ ring' = [ring EXCEPT ![c] = Tail(@)]
    /\ LET rec == Head(ring[c])
           src == << rec.cpu, rec.k >>
           data == Buffers[rec.buf]
           event == copy_from_bytes(data)
       IN
       /\ delivered' = Append(delivered, src)
       /\ IF ~event.ok
          THEN UNCHANGED << pc, exit, stderr, fs_file, console >>
          ELSE IF ~from_utf8_ok(event.comm)
          THEN /\ Panic("panic:utf8", "called Result::unwrap() on an Err value")
               /\ UNCHANGED << fs_file, console >>
          ELSE
            \E now \in Times, file_ok \in BOOLEAN, console_ok \in BOOLEAN :
              LET comm_str == trim_end_matches_nul(event.comm)
                  line == EventLine(opts.extra_fields, now, event, comm_str,
                                    cap_name(event.cap))
                  w == WriteLineToFile(fs_file, stderr, Entry(line, src), file_ok)
              IN
              /\ fs_file' = w.file
              /\ IF w.panicked
                 THEN /\ pc' = "exit"
                      /\ exit' = "panic:file"
                      /\ stderr' = w.err
                      /\ UNCHANGED console
                 ELSE IF console_ok
                 THEN /\ console' = ConsoleWrite(console, Entry(line, src))
                      /\ stderr' = w.err
                      /\ UNCHANGED << pc, exit >>
                 ELSE /\ pc' = "exit"
                      /\ exit' = "panic:stdout"
                      /\ stderr' = Append(w.err, PanicMsg("failed printing to stdout"))
                      /\ UNCHANGED console
    /\ UNCHANGED << skel, file, fs_touched, perf, emitted >>
    /\ UNCHANGED << cfgVars, cgVars >>

\* main.rs:272, the ring hands a sample to sample_cb: handle_event,
\* main.rs:213-265.  The file is written first, then the console.
PollSample(c) ==
    /\ pc = "poll"
    /\ ring[c] # << >>
    /\ Head(ring[c]).type = "sample"
    /\ polled' = [timeout |-> PollTimeoutMs, result |-> "ok"]
    /\ ring' = [ring EXCEPT ![c] = Tail(@)]
    /\ LET rec == Head(ring[c])
           src == << rec.cpu, rec.k >>
           data == Buffers[rec.buf]
           event == copy_from_bytes(data)
       IN
       /\ delivered' = Append(delivered, src)
       /\ IF ~event.ok
          THEN /\ Panic("panic:decode", "Data buffer was too short")
               /\ UNCHANGED << fs_file, console >>
          ELSE IF ~from_utf8_ok(event.comm)
          THEN /\ Panic("panic:utf8", "called Result::unwrap() on an Err value")
               /\ UNCHANGED << fs_file, console >>
          ELSE
            \E now \in Times, file_ok \in BOOLEAN, console_ok \in BOOLEAN :
              LET comm_str == trim_end_matches_nul(event.comm)
                  line == EventLine(opts.extra_fields, now, event, comm_str,
                                    cap_name(event.cap))
                  w == WriteLineToFile(fs_file, stderr, Entry(line, src), file_ok)
              IN
              /\ fs_file' = w.file
              /\ IF w.panicked
                 THEN /\ pc' = "exit"
                      /\ exit' = "panic:file"
                      /\ stderr' = w.err
                      /\ UNCHANGED console
                 ELSE IF console_ok
                 THEN /\ console' = ConsoleWrite(console, Entry(line, src))
                      /\ stderr' = w.err
                      /\ UNCHANGED << pc, exit >>
                 ELSE /\ pc' = "exit"
                      /\ exit' = "panic:stdout"
                      /\ stderr' = Append(w.err, PanicMsg("failed printing to stdout"))
                      /\ UNCHANGED console
    /\ UNCHANGED << skel, file, fs_touched, perf, emitted >>
    /\ UNCHANGED << cfgVars, cgVars >>

\* main.rs:271-273, a poll that times out with nothing to hand over
PollIdle ==
    /\ pc = "poll"
    /\ polled' = [timeout |-> PollTimeoutMs, result |-> "ok"]
    /\ UNCHANGED << pc, exit, stderr, skel, perf, ring, emitted, delivered >>
    /\ UNCHANGED << cfgVars, cgVars, outVars >>

\* a variant of PollError that reports the error and polls again
PollError_Retry ==
    /\ pc = "poll"
    /\ polled' = [timeout |-> PollTimeoutMs, result |-> "err"]
    /\ stderr' = Append(stderr, ErrorMsg("poll"))
    /\ UNCHANGED << pc, exit, skel, perf, ring, emitted, delivered >>
    /\ UNCHANGED << cfgVars, cgVars, outVars >>

\* main.rs:272, perf.poll returns Err and `?` leaves main
PollError ==
    /\ pc = "poll"
    /\ polled' = [timeout |-> PollTimeoutMs, result |-> "err"]
    /\ Fail("err:poll", "poll")
    /\ UNCHANGED << skel, perf, ring, emitted, delivered >>
    /\ UNCHANGED << cfgVars, cgVars, outVars >>

--------------------------------------------------------------------------

Next ==
    \/ FromArgs
    \/ BumpMemlockRlimit
    \/ Open
    \/ ConfigTgid
    \/ ConfigVerbose
    \/ ConfigUniqueType
    \/ Load
    \/ CgroupOpen
    \/ MapUpdate
    \/ Attach
    \/ RemoveFile
    \/ PrintBanner
    \/ OpenFile
    \/ FileHeader
    \/ BuildPerf
    \/ \E c \in CPUs, b \in Emittable : KernelEmit(c, b)
    \/ \E c \in CPUs : PollLost(c)
    \/ \E c \in CPUs : PollSample(c)
    \/ PollIdle
    \/ PollError

Spec == Init /\ [][Next]_vars

--------------------------------------------------------------------------
(* Argument parsing on its own: the first statement of main() for every
   command line of the parsing model *)

NextParse == FromArgs

SpecParse == InitParse /\ [][NextParse]_vars

--------------------------------------------------------------------------
(* handle_event on its own: main() is in the poll loop after a startup in
   which every step succeeded, and the ring of one CPU holds one sample whose
   bytes are any of Buffers *)

InitCodec ==
    /\ pc = "poll"
    /\ exit = "running"
    /\ args \in {a \in CommandLines :
                    a.unique \in {NotGiven, Given(<< "P","I","D" >>),
                                  Given(<< "C","g","r","o","u","p" >>)}}
    /\ opts = [verbose |-> args.verbose, pid |-> args.pid,
               extra_fields |-> args.extra_fields,
               unique_type |-> from_str(IF args.unique.given THEN args.unique.token
                                        ELSE DefaultUnique).val]
    /\ memlock = << [rlim_cur |-> MemlockLimit, rlim_max |-> MemlockLimit] >>
    /\ skel = "attached"
    /\ rodata = [tgid |-> ConfiguredTgid(opts), verbose |-> ConfiguredVerbose(opts),
                 unique_type |-> ConfiguredUniqueType(opts)]
    /\ kernel_config = << rodata >>
    /\ load_calls = << rodata >>
    /\ cgroup_file = "fd:cgroups_path"
    /\ cgroup_map = [i \in {0} |-> cgroup_file]
    /\ map_updates = << [skel |-> "loaded", key |-> 0, value |-> cgroup_file,
                         ok |-> TRUE] >>
    /\ fs_file = [exists |-> TRUE,
                  lines |-> << Entry(Header(opts.extra_fields), NoSrc) >>]
    /\ file = TRUE
    /\ fs_touched = TRUE
    /\ console = << Entry(Header(opts.extra_fields), NoSrc) >>
    /\ stderr = << >>
    /\ perf = TRUE
    /\ \E c \in CPUs, b \in DOMAIN Buffers :
         /\ ring = [d \in CPUs |-> IF d = c THEN << Sample(c, 1, b) >> ELSE << >>]
         /\ emitted = [d \in CPUs |-> IF d = c THEN 1 ELSE 0]
    /\ delivered = << >>
    /\ polled = [timeout |-> PollTimeoutMs, result |-> "ok"]

NextCodec == \E c \in CPUs : PollSample(c)

SpecCodec == InitCodec /\ [][NextCodec]_vars

--------------------------------------------------------------------------
(* Properties *)

IsEvent(e) == e.src # NoSrc
EventsOf(sink) == SelectSeq(sink, IsEvent)

\* C1: filter_pid, verbose and uniqueness_mode are written after open has
\* succeeded and before load is invoked: nothing is written while the
\* program is not open, every invocation of load sees the three fields equal
\* to the command-line values, and the fields are not written after load.
C1_ConfigBeforeLoad ==
    /\ skel = "none" => rodata = DefaultConfig
    /\ Len(load_calls) <= 1
    /\ \A i \in DOMAIN load_calls :
         /\ load_calls[i].tgid = args.pid
         /\ load_calls[i].verbose = args.verbose
         /\ load_calls[i].unique_type = opts.unique_type
    /\ \A i \in DOMAIN kernel_config : kernel_config[i] = rodata

C1_Witness ==
    /\ skel = "loaded"
    /\ Len(load_calls) = 1
    /\ args.pid = 1234
    /\ args.verbose
    /\ opts.unique_type = "UNQ_CGROUP"
    /\ kernel_config = << [tgid |-> 1234, verbose |-> TRUE,
                           unique_type |-> "UNQ_CGROUP"] >>

\* C2: the cgroup-filter table is updated once per run, at index 0, after
\* load has succeeded and before attach is invoked; once the program is
\* attached the update has happened, and nothing updates the table again.
C2_TableWrittenOnce ==
    /\ Len(map_updates) <= 1
    /\ \A i \in DOMAIN map_updates :
         map_updates[i].skel = "loaded" /\ map_updates[i].key = 0
    /\ skel = "attached" => Len(map_updates) = 1
    /\ pc \in {"from_args", "rlimit", "open", "cfg_tgid", "cfg_verbose",
               "cfg_unique", "load", "cgroup_open", "map_update"}
         => map_updates = << >> /\ cgroup_map[0] = NoFd
    /\ cgroup_map[0] # NoFd =>
         Len(map_updates) = 1 /\ map_updates[1].ok
                              /\ cgroup_map[0] = map_updates[1].value

C2_Witness ==
    /\ pc = "poll"
    /\ Len(map_updates) = 1
    /\ cgroup_map[0] = "fd:cgroups_path"
    /\ EventsOf(console) # << >>
    /\ EventsOf(fs_file.lines) # << >>
    /\ \E i \in DOMAIN stderr : stderr[i] = LostMsg(0, 1)

Last(q) == q[Len(q)]

\* the sources of the event lines of one CPU in a sink, in sink order
SrcsOf(sink, c) ==
    LET ev == SelectSeq(sink, LAMBDA e : IsEvent(e) /\ e.src[1] = c)
    IN [i \in 1..Len(ev) |-> ev[i].src]

DeliveredOf(c) == SelectSeq(delivered, LAMBDA t : t[1] = c)

RECURSIVE IsSubseq(_, _)
IsSubseq(a, b) ==
    IF a = << >> THEN TRUE
    ELSE IF b = << >> THEN FALSE
    ELSE IF Head(a) = Head(b) THEN IsSubseq(Tail(a), Tail(b))
    ELSE IsSubseq(a, Tail(b))

IsLostMsg(m, c) == Len(m) = 4 /\ m[1].s = "Lost " /\ m[4].t = "int" /\ m[4].n = c

RECURSIVE LostReported(_, _)
LostReported(err, c) ==
    IF err = << >> THEN 0
    ELSE (IF IsLostMsg(Head(err), c) THEN Head(err)[2].n ELSE 0)
             + LostReported(Tail(err), c)

\* the samples of one CPU that have a line in at least one sink
Rendered(c) ==
    { t \in {delivered[i] : i \in DOMAIN delivered} :
        /\ t[1] = c
        /\ \/ \E i \in DOMAIN console : console[i].src = t
           \/ \E i \in DOMAIN fs_file.lines : fs_file.lines[i].src = t }

\* C3: no sample is hidden: every record the attached kernel program has
\* emitted on a CPU is still waiting in that CPU's ring, or was handed to
\* the sample callback and rendered as a line, or is counted in a lost-event
\* record (waiting in the ring or already reported on the diagnostic sink).
C3_NoSampleHidden ==
    \A c \in CPUs :
        emitted[c] = Len(Samples(ring[c])) + LostCount(ring[c])
                       + Cardinality(Rendered(c)) + LostReported(stderr, c)

\* C4: for each CPU, the event lines of that CPU appear in the console and
\* in the output file in the order in which the ring handed that CPU's
\* samples to the sample callback.
C4_PerCpuOrder ==
    \A c \in CPUs :
        /\ IsSubseq(SrcsOf(console, c), DeliveredOf(c))
        /\ IsSubseq(SrcsOf(fs_file.lines, c), DeliveredOf(c))

C4_Witness ==
    \E c \in CPUs :
        /\ Len(DeliveredOf(c)) >= 2
        /\ SrcsOf(console, c) = DeliveredOf(c)
        /\ SrcsOf(fs_file.lines, c) = DeliveredOf(c)

\* C5 as stated: once the sample callback has returned, every sample handed
\* to it has exactly one line in the console and exactly one line in the
\* output file.
C5_OneLinePerSinkAlways ==
    exit = "running" =>
        /\ Len(EventsOf(console)) = Len(delivered)
        /\ Len(EventsOf(fs_file.lines)) = Len(delivered)

\* whether sink2 is sink1 with one more line at the end, rendered from src
GrewByLineOf(sink1, sink2, src) ==
    /\ Len(sink2) = Len(sink1) + 1
    /\ SubSeq(sink2, 1, Len(sink1)) = sink1
    /\ Last(sink2).src = src

\* C5 as amended: handling one sample adds at most one line to each sink, at
\* its end and before the next sample is handled; the console gets its line
\* unless the sample fails to decode or the console write fails (both end the
\* run); the file gets its line unless the sample fails to decode or the file
\* write fails (which is reported); both sinks get the same line; nothing is
\* suppressed because of the uniqueness mode or of an equal earlier event.
C5_OneLinePerSuccessfulWrite ==
    [][delivered' # delivered =>
         LET src == Last(delivered') IN
         /\ Len(delivered') = Len(delivered) + 1
         /\ console' = console \/ GrewByLineOf(console, console', src)
         /\ fs_file'.lines = fs_file.lines
               \/ GrewByLineOf(fs_file.lines, fs_file'.lines, src)
         /\ console' = console =>
               exit' \in {"panic:decode", "panic:utf8", "panic:stdout"}
         /\ fs_file'.lines = fs_file.lines =>
               \/ exit' \in {"panic:decode", "panic:utf8"}
               \/ /\ Len(stderr') > Len(stderr)
                  /\ stderr'[Len(stderr) + 1] = FileErrMsg
         /\ (console' # console /\ fs_file'.lines # fs_file.lines) =>
               Last(console').line = Last(fs_file'.lines).line
    ]_vars

C5_Witness ==
    /\ opts.unique_type = "UNQ_PID"
    /\ Len(delivered) = 2
    /\ Len(EventsOf(console)) = 2
    /\ Len(EventsOf(fs_file.lines)) = 2
    /\ EventsOf(console)[1].line = EventsOf(console)[2].line
    /\ EventsOf(fs_file.lines)[1].line = EventsOf(fs_file.lines)[2].line

ExpectedColumns(extra) ==
    IF extra
    THEN << "TIME", "UID", "PID", "TID", "COMM", "CAP", "NAME", "AUDIT", "INSETID" >>
    ELSE << "TIME", "UID", "PID", "COMM", "CAP", "NAME", "AUDIT" >>

Columns(line) == [i \in 1..Len(line) |-> line[i].s]

IsHeaderEntry(e, extra) ==
    ~IsEvent(e) /\ Columns(e.line) = ExpectedColumns(extra)

HeaderOnceFirst(sink, extra) ==
    /\ sink # << >>
    /\ IsHeaderEntry(sink[1], extra)
    /\ \A i \in 2..Len(sink) : IsEvent(sink[i])

\* C6 as stated: in every run that reaches the poll loop the header of the
\* active layout is in the console and in the output file exactly once, as
\* the first line.
C6_HeaderOnceInBothSinks ==
    perf => /\ HeaderOnceFirst(console, args.extra_fields)
            /\ HeaderOnceFirst(fs_file.lines, args.extra_fields)

\* C6 as amended: in every run that reaches the poll loop the header of the
\* active layout is the first line of the console, exactly once; the output
\* file holds it exactly once, as its first line, unless the write of the
\* header to the file failed: then the failure is the first diagnostic and
\* the file holds event lines only.
C6_HeaderFirstUnlessFileWriteFailed ==
    perf => /\ HeaderOnceFirst(console, args.extra_fields)
            /\ \/ HeaderOnceFirst(fs_file.lines, args.extra_fields)
               \/ /\ stderr # << >>
                  /\ stderr[1] = FileErrMsg
                  /\ \A i \in DOMAIN fs_file.lines : IsEvent(fs_file.lines[i])

C6_Witness ==
    /\ perf
    /\ args.extra_fields
    /\ HeaderOnceFirst(console, TRUE)
    /\ HeaderOnceFirst(fs_file.lines, TRUE)
    /\ Len(console) >= 2
    /\ Len(fs_file.lines) >= 2

\* a step in which handle_event ran for a sample that decoded and the write
\* of its line to the file failed
FileWriteFailedStep ==
    /\ delivered' # delivered
    /\ exit' \notin {"panic:decode", "panic:utf8"}
    /\ fs_file' = fs_file

\* C7: a failed write of an event line to the file does not halt the
\* pipeline: the failure is reported on the diagnostic sink, the file is left
\* as it was, the same event's line is written to the console (unless the
\* console write fails itself), and main() stays in the poll loop.
C7_FileFailureNotFatal ==
    [][FileWriteFailedStep =>
         /\ Len(stderr') > Len(stderr)
         /\ stderr'[Len(stderr) + 1] = FileErrMsg
         /\ exit' \in {"running", "panic:stdout"}
         /\ exit' = "running" =>
               /\ pc' = "poll"
               /\ stderr' = Append(stderr, FileErrMsg)
               /\ GrewByLineOf(console, console', Last(delivered'))
    ]_vars

\* a file write failed for the first sample, and a later sample was handled
\* and written to both sinks
C7_Witness ==
    /\ pc = "poll"
    /\ exit = "running"
    /\ Len(delivered) = 2
    /\ Len(EventsOf(console)) = 2
    /\ Len(EventsOf(fs_file.lines)) = 1
    /\ EventsOf(fs_file.lines)[1].src = delivered[2]
    /\ HeaderOnceFirst(fs_file.lines, args.extra_fields)
    /\ stderr = << FileErrMsg >>

\* C8: the two sinks are independent in both directions: neither a failed
\* console write nor a failed file write ends the run, so neither keeps the
\* current line or a later line from the other sink.
C8_SinksIndependent ==
    /\ exit # "panic:stdout"
    /\ exit # "panic:file"

\* C9: a poll failure is fatal: once perf.poll has returned an error main()
\* has left the loop with that error as the last diagnostic, and a process
\* that has ended takes no further step (no poll, no callback, no retry);
\* every poll is made with a 100 ms timeout, and while no poll has failed
\* and no callback has panicked main() stays in the poll loop.
C9_PollFailureFatal ==
    /\ [](/\ polled.result = "err" =>
                /\ pc = "exit"
                /\ exit = "err:poll"
                /\ Last(stderr) = ErrorMsg("poll")
          /\ polled.result # "none" => polled.timeout = 100
          /\ (polled.result = "ok" /\ exit = "running") => pc = "poll"
          /\ exit = "err:poll" => polled.result = "err")
    /\ [][exit = "running" /\ (pc = "poll" /\ pc' # "poll" => exit' # "running")]_vars

C9_Witness ==
    /\ exit = "err:poll"
    /\ polled = [timeout |-> 100, result |-> "err"]
    /\ Len(delivered) >= 1
    /\ \E c \in CPUs : ring[c] # << >>

\* a step in which the ring handed the lost-record at the head of CPU c's
\* ring to the lost callback
LostStep(c) ==
    /\ ring[c] # << >>
    /\ Head(ring[c]).type = "lost"
    /\ ring'[c] = Tail(ring[c])

\* C10: a lost-event notification (cpu, count) adds exactly one diagnostic
\* message, which carries the count and the CPU id; the console, the output
\* file and the delivered samples are unchanged, nothing is re-queued, and
\* main() stays in the poll loop.
C10_LostOnlyReported ==
    [][\A c \in CPUs : LostStep(c) =>
         LET count == Head(ring[c]).count IN
         /\ Len(stderr') = Len(stderr) + 1
         /\ SubSeq(stderr', 1, Len(stderr)) = stderr
         /\ \E i, j \in DOMAIN Last(stderr') :
               /\ i # j
               /\ Last(stderr')[i].t = "int" /\ Last(stderr')[i].n = count
               /\ Last(stderr')[j].t = "int" /\ Last(stderr')[j].n = c
         /\ console' = console
         /\ fs_file' = fs_file
         /\ delivered' = delivered
         /\ emitted' = emitted
         /\ \A d \in CPUs \ {c} : ring'[d] = ring[d]
         /\ pc' = "poll"
         /\ exit' = "running"
    ]_vars

C10_Witness ==
    /\ pc = "poll"
    /\ exit = "running"
    /\ EventsOf(console) # << >>
    /\ EventsOf(fs_file.lines) # << >>
    /\ stderr # << >>
    /\ Last(stderr) = LostMsg(1, 1)
    /\ ring[1] = << >>

--------------------------------------------------------------------------
(* Command-line claims *)

AcceptedWords ==
    { << "o","f","f" >>, << "p","i","d" >>, << "c","g","r","o","u","p" >> }

\* whether token t is word w with each letter in either case
IsCaseVariant(t, w) ==
    /\ Len(t) = Len(w)
    /\ \A i \in 1..Len(w) : t[i] = w[i] \/ t[i] = Upper[w[i]]

\* whether the --unique argument u is one the documentation accepts
Accepted(u) == ~u.given \/ \E w \in AcceptedWords : IsCaseVariant(u.token, w)

\* C11: an unknown --unique token is a configuration error that precedes all
\* kernel interaction: such a run never gets past argument parsing, and it
\* ends with the memlock limit unchanged, the program neither opened, loaded
\* nor attached, the cgroup path not opened, the cgroup table not written,
\* the output path neither removed nor created, and nothing printed or polled.
C11_UnknownTokenBeforeKernel ==
    ~Accepted(args.unique) =>
        /\ pc \in {"from_args", "exit"}
        /\ pc = "exit" => exit = "err:args"
        /\ memlock = << >>
        /\ skel = "none"
        /\ rodata = DefaultConfig
        /\ load_calls = << >>
        /\ cgroup_file = NoFd
        /\ cgroup_map[0] = NoFd
        /\ map_updates = << >>
        /\ ~fs_touched
        /\ fs_file \in {NoFile, StaleFile}
        /\ ~file
        /\ console = << >>
        /\ ~perf
        /\ polled.result = "none"

C11_Witness ==
    /\ exit = "err:args"
    /\ args.unique = Given(<< "c","o","n","t","a","i","n","e","r" >>)
    /\ fs_file = StaleFile
    /\ Len(stderr) = 1
    /\ memlock = << >>

\* C12: when a --unique token is rejected, the message of the error names
\* the accepted tokens: each of off, pid and cgroup appears in it.
C12_ErrorNamesAcceptedTokens ==
    exit = "err:args" =>
        /\ stderr # << >>
        /\ \A w \in {"off", "pid", "cgroup"} :
             \E i \in DOMAIN Last(stderr) : Last(stderr)[i].s = w

--------------------------------------------------------------------------
(* Startup and output-file claims *)

StartupFailures ==
    {"err:rlimit", "err:open", "err:load", "panic:cgroup", "err:attach"}

\* C13: startup failures are fatal and precede all output: a run that ends
\* because raising the memlock limit, open, load, opening the cgroup path or
\* attach failed has printed one diagnostic and nothing else: no line in the
\* console or the file, the output path neither removed nor created, no poll.
\* Each step is reached only after the steps before it have succeeded, and an
\* unopenable cgroup path ends the run with the program loaded, the table not
\* written and attach not invoked.
C13_StartupFailuresFatal ==
    /\ exit \in StartupFailures =>
          /\ pc = "exit"
          /\ Len(stderr) = 1
          /\ console = << >>
          /\ ~fs_touched
          /\ fs_file \in {NoFile, StaleFile}
          /\ ~file
          /\ ~perf
          /\ delivered = << >>
          /\ polled.result = "none"
          /\ skel # "attached"
    /\ exit \in {"err:rlimit", "err:open"} => skel = "none"
    /\ exit = "err:rlimit" => memlock = << >>
    /\ exit = "err:load" => skel = "open" /\ cgroup_file = NoFd
    /\ exit = "panic:cgroup" =>
          /\ skel = "loaded"
          /\ cgroup_file = NoFd
          /\ map_updates = << >>
          /\ cgroup_map[0] = NoFd
    /\ exit = "err:attach" => skel = "loaded" /\ Len(map_updates) = 1
    /\ skel # "none" => memlock # << >>
    /\ cgroup_file # NoFd => skel \in {"loaded", "attached"}
    /\ (map_updates # << >> \/ skel = "attached") => cgroup_file # NoFd
    /\ (fs_touched \/ file \/ console # << >> \/ perf \/ polled.result # "none")
          => skel = "attached"

C13_Witness ==
    /\ exit = "panic:cgroup"
    /\ skel = "loaded"
    /\ fs_file = StaleFile
    /\ map_updates = << >>
    /\ stderr = << PanicMsg("Unable to open cgroupsPath") >>

IsPrefix(a, b) == Len(a) <= Len(b) /\ SubSeq(b, 1, Len(a)) = a

\* C14 as stated: once the output file is open it holds nothing from before
\* the run, its first line (when it has one) is the header, and every line
\* after the first is an event line.
C14_HeaderThenEventsOnly ==
    file =>
        /\ \A i \in DOMAIN fs_file.lines : fs_file.lines[i] # StaleFile.lines[1]
        /\ fs_file.lines # << >> =>
              IsHeaderEntry(fs_file.lines[1], args.extra_fields)
        /\ \A i \in 2..Len(fs_file.lines) : IsEvent(fs_file.lines[i])

\* C14 as amended: the output file starts empty and only grows: the file is
\* empty when the run opens it, whatever was at the path before; every write
\* appends one line, so the content at an earlier moment is a prefix of the
\* content at any later moment; the header is written once, as the first
\* line, unless the write of the header failed (the failure is then the first
\* diagnostic and the file holds event lines only); every other line is the
\* line of a distinct sample handed to the callback.
C14_StartsEmptyAndGrows ==
    /\ [](file =>
            /\ fs_file.exists
            /\ \/ HeaderOnceFirst(fs_file.lines, args.extra_fields)
               \/ /\ pc = "file_header"
                  /\ fs_file.lines = << >>
               \/ /\ stderr # << >>
                  /\ stderr[1] = FileErrMsg
                  /\ \A i \in DOMAIN fs_file.lines : IsEvent(fs_file.lines[i])
            /\ \A i, j \in DOMAIN fs_file.lines :
                  (IsEvent(fs_file.lines[i]) /\ fs_file.lines[i].src = fs_file.lines[j].src)
                      => i = j
            /\ \A i \in DOMAIN fs_file.lines :
                  IsEvent(fs_file.lines[i]) =>
                      \E k \in DOMAIN delivered : delivered[k] = fs_file.lines[i].src)
    /\ [][(file' /\ ~file) => fs_file'.lines = << >>]_vars
    /\ [][file => /\ file'
                  /\ IsPrefix(fs_file.lines, fs_file'.lines)
                  /\ Len(fs_file'.lines) <= Len(fs_file.lines) + 1]_vars

C14_Witness ==
    /\ file
    /\ Len(fs_file.lines) = 3
    /\ HeaderOnceFirst(fs_file.lines, args.extra_fields)
    /\ fs_file.lines[2].src # fs_file.lines[3].src

--------------------------------------------------------------------------
(* Decoding and rendering claims *)

\* a step in which the ring handed the sample at the head of CPU c's ring to
\* the sample callback
SampleStep(c) ==
    /\ pc = "poll"
    /\ ring[c] # << >>
    /\ Head(ring[c]).type = "sample"
    /\ ring'[c] = Tail(ring[c])
    /\ delivered' # delivered

\* the bytes of that sample
HandedBuffer(c) == Buffers[Head(ring[c]).buf]

\* the lines the step added to the console and to the file
NewLines ==
    {console'[i].line : i \in (Len(console) + 1)..Len(console')}
        \cup {fs_file'.lines[i].line :
                 i \in (Len(fs_file.lines) + 1)..Len(fs_file'.lines)}

\* the cell of a line that stands under the header column `name`
Col(line, extra, name) ==
    line[CHOOSE i \in 1..Len(ExpectedColumns(extra)) :
            ExpectedColumns(extra)[i] = name]

IsInt(cell, n) == cell.t = "int" /\ cell.n = n
IsText(cell, b) == cell.t = "bytes" /\ cell.b = b
IsWord(cell, s) == cell.t = "str" /\ cell.s = s

\* C15: the decoder accepts a buffer exactly when it is at least as long as
\* the record: a shorter buffer ends the run with the decode error and adds
\* no line to either sink; a longer or equal one is never a decode error; an
\* all-zero buffer of exactly the record length renders uid, tgid, pid and
\* cap 0, an empty comm and false for audit and insetid; a longer buffer
\* renders the lines of its first record-length bytes.
C15_DecodeByLength ==
    [][\A c \in CPUs : SampleStep(c) =>
         LET data == HandedBuffer(c)
             x == opts.extra_fields
         IN
         /\ Len(data) < RecordLen =>
               /\ exit' = "panic:decode"
               /\ pc' = "exit"
               /\ NewLines = {}
               /\ console' = console
               /\ fs_file' = fs_file
         /\ Len(data) >= RecordLen => exit' # "panic:decode"
         /\ (Len(data) = RecordLen /\ \A i \in DOMAIN data : data[i] = 0) =>
               /\ exit' \in {"running", "panic:stdout"}
               /\ exit' = "running" => NewLines # {}
               /\ \A line \in NewLines :
                     /\ Len(line) = Len(ExpectedColumns(x))
                     /\ IsInt(Col(line, x, "UID"), 0)
                     /\ IsInt(Col(line, x, "PID"), 0)
                     /\ IsText(Col(line, x, "COMM"), << >>)
                     /\ IsInt(Col(line, x, "CAP"), 0)
                     /\ IsWord(Col(line, x, "AUDIT"), "false")
                     /\ x => /\ IsInt(Col(line, x, "TID"), 0)
                             /\ IsWord(Col(line, x, "INSETID"), "false")
         /\ Len(data) > RecordLen =>
               LET e == copy_from_bytes(SubSeq(data, 1, RecordLen)) IN
               /\ exit' = "panic:utf8" <=> ~from_utf8_ok(e.comm)
               /\ \A line \in NewLines :
                     \E now \in Times :
                        line = EventLine(x, now, e, trim_end_matches_nul(e.comm),
                                         cap_name(e.cap))
    ]_vars

\* the all-zero record was rendered to both sinks in the extra layout
C15_Witness ==
    /\ args.extra_fields
    /\ exit = "running"
    /\ Len(delivered) = 1
    /\ Len(console) = 2
    /\ Len(fs_file.lines) = 2
    /\ console[2].line = fs_file.lines[2].line
    /\ IsInt(console[2].line[2], 0)
    /\ IsInt(console[2].line[3], 0)
    /\ IsInt(console[2].line[4], 0)
    /\ IsText(console[2].line[5], << >>)
    /\ IsInt(console[2].line[6], 0)
    /\ IsWord(console[2].line[8], "false")
    /\ IsWord(console[2].line[9], "false")

Zeros(n) == [i \in 1..n |-> 0]

\* C16: the rendered comm is the 16-byte comm field as text with all its
\* trailing zero bytes removed and nothing else changed ("sshd" and twelve
\* zero bytes render as "sshd", sixteen zero bytes as the empty text); when
\* the 16 bytes are not valid text the callback ends the run with an error
\* and adds no line to either sink.
C16_CommRendering ==
    [][\A c \in CPUs : (SampleStep(c) /\ Len(HandedBuffer(c)) >= RecordLen) =>
         LET comm == copy_from_bytes(HandedBuffer(c)).comm
             x == opts.extra_fields
         IN
         /\ Len(comm) = 16
         /\ exit' = "panic:utf8" <=> ~from_utf8_ok(comm)
         /\ (\A i \in DOMAIN comm : comm[i] < 128) => exit' # "panic:utf8"
         /\ (comm[1] = 255 \/ comm[16] = 195) => exit' = "panic:utf8"
         /\ exit' = "panic:utf8" =>
               /\ pc' = "exit"
               /\ NewLines = {}
               /\ console' = console
               /\ fs_file' = fs_file
         /\ exit' = "running" => NewLines # {}
         /\ \A line \in NewLines :
               LET r == Col(line, x, "COMM") IN
               /\ r.t = "bytes"
               /\ Len(r.b) <= 16
               /\ r.b = << >> \/ r.b[Len(r.b)] # 0
               /\ comm = r.b \o Zeros(16 - Len(r.b))
               /\ comm = << 115, 115, 104, 100 >> \o Zeros(12)
                     => r.b = << 115, 115, 104, 100 >>
               /\ comm = Zeros(16) => r.b = << >>
    ]_vars

\* a comm of "sshd" and twelve zero bytes was rendered to both sinks
C16_Witness ==
    /\ exit = "running"
    /\ Len(console) = 2
    /\ Len(fs_file.lines) = 2
    /\ \E i \in DOMAIN console[2].line :
          IsText(console[2].line[i], << 115, 115, 104, 100 >>)
    /\ \E i \in DOMAIN fs_file.lines[2].line :
          IsText(fs_file.lines[2].line[i], << 115, 115, 104, 100 >>)

\* C17: the capability name lookup is total: every id in 0..40 has a name of
\* its own that is not the unknown marker (0 is CAP_CHOWN, 21 CAP_SYS_ADMIN,
\* 40 CAP_CHECKPOINT_RESTORE), every other 32-bit id (negative or above 40)
\* has the name "?", and in both cases the sample is rendered as a normal
\* line carrying the id and that name; the id never ends the run.
C17_CapNameTotal ==
    /\ [](/\ \A id \in 0..40 : cap_name(id) # "?"
          /\ \A i, j \in 0..40 : cap_name(i) = cap_name(j) => i = j
          /\ cap_name(0) = "CAP_CHOWN"
          /\ cap_name(21) = "CAP_SYS_ADMIN"
          /\ cap_name(40) = "CAP_CHECKPOINT_RESTORE"
          /\ \A id \in {-2147483647 - 1, -41, -1, 41, 42, 255, 2147483647} :
                cap_name(id) = "?")
    /\ [][\A c \in CPUs :
            (/\ SampleStep(c)
             /\ Len(HandedBuffer(c)) >= RecordLen
             /\ from_utf8_ok(copy_from_bytes(HandedBuffer(c)).comm)) =>
               LET cap == copy_from_bytes(HandedBuffer(c)).cap
                   x == opts.extra_fields
               IN
               /\ exit' \in {"running", "panic:stdout"}
               /\ exit' = "running" =>
                     /\ pc' = "poll"
                     /\ GrewByLineOf(console, console', Last(delivered'))
               /\ \A line \in NewLines :
                     /\ Len(line) = Len(ExpectedColumns(x))
                     /\ IsInt(Col(line, x, "CAP"), cap)
                     /\ IsWord(Col(line, x, "NAME"),
                               CASE cap = 0 -> "CAP_CHOWN"
                                 [] cap = 21 -> "CAP_SYS_ADMIN"
                                 [] cap = 40 -> "CAP_CHECKPOINT_RESTORE"
                                 [] cap < 0 \/ cap > 40 -> "?"
                                 [] OTHER -> cap_name(cap))
      ]_vars

\* the sample with cap -2^31 was rendered as a normal line in both sinks
C17_Witness ==
    /\ exit = "running"
    /\ pc = "poll"
    /\ Len(console) = 2
    /\ Len(fs_file.lines) = 2
    /\ \E i, j \in DOMAIN console[2].line :
          /\ IsInt(console[2].line[i], -2147483647 - 1)
          /\ IsWord(console[2].line[j], "?")
    /\ fs_file.lines[2].line = console[2].line

\* the mode a run was configured with, once its arguments are parsed
ParsedAs(mode) == exit # "err:args" /\ opts.unique_type = mode

\* C18: token parsing is case-insensitive and closed: once the arguments are
\* parsed, every case variant of off, pid and cgroup has given the mode Off,
\* ByPid and ByCgroup (UNQ_OFF, UNQ_PID, UNQ_CGROUP), so "PID", "pid" and
\* "Pid" give the same mode; every other token has ended the run with the
\* argument error; a run without --unique has the mode Off.
C18_TokenParsing ==
    pc # "from_args" =>
        LET u == args.unique IN
        /\ ~u.given => ParsedAs("UNQ_OFF")
        /\ (u.given /\ IsCaseVariant(u.token, << "o","f","f" >>))
              => ParsedAs("UNQ_OFF")
        /\ (u.given /\ IsCaseVariant(u.token, << "p","i","d" >>))
              => ParsedAs("UNQ_PID")
        /\ (u.given /\ IsCaseVariant(u.token, << "c","g","r","o","u","p" >>))
              => ParsedAs("UNQ_CGROUP")
        /\ u \in {Given(<< "P","I","D" >>), Given(<< "p","i","d" >>),
                  Given(<< "P","i","d" >>)} => ParsedAs("UNQ_PID")
        /\ ~Accepted(u) => exit = "err:args" /\ pc = "exit" /\ opts = NoOpts
        /\ u = Given(<< "c","o","n","t","a","i","n","e","r" >>) => exit = "err:args"

C18_Witness ==
    /\ pc = "rlimit"
    /\ args.unique = Given(<< "P","i","d" >>)
    /\ opts.unique_type = "UNQ_PID"

\* whether an event line has the cells of the layout, column by column
HasLayout(line, x) ==
    /\ Len(line) = Len(ExpectedColumns(x))
    /\ Col(line, x, "TIME").t = "str" /\ Col(line, x, "TIME").s \in Times
    /\ Col(line, x, "UID").t = "int"
    /\ Col(line, x, "PID").t = "int"
    /\ Col(line, x, "COMM").t = "bytes"
    /\ Col(line, x, "CAP").t = "int"
    /\ IsWord(Col(line, x, "NAME"), cap_name(Col(line, x, "CAP").n))
    /\ Col(line, x, "AUDIT").t = "str"
    /\ Col(line, x, "AUDIT").s \in {"true", "false"}
    /\ x => /\ Col(line, x, "TID").t = "int"
            /\ Col(line, x, "INSETID").t = "str"
            /\ Col(line, x, "INSETID").s \in {"true", "false"}

TrueFalse(v) == IF v THEN "true" ELSE "false"

\* C19: the layout is chosen once, from the extra-fields flag, and held for
\* the run: the flag is not written after the arguments are parsed; every
\* header in a sink is the header of that layout and every event line in
\* either sink has that layout's columns, TIME, UID, PID, COMM, CAP, NAME,
\* AUDIT, with TID after PID and INSETID at the end in the extra layout;
\* the line of a sample carries uid under UID, tgid under PID, pid under TID,
\* the trimmed comm, cap, the registry name of cap, audit and insetid, and
\* the file and the console get the same line.
C19_LayoutFixed ==
    /\ [](/\ pc # "from_args" /\ exit # "err:args"
                => opts.extra_fields = args.extra_fields
          /\ \A sink \in {console, fs_file.lines} :
                \A i \in DOMAIN sink :
                   /\ IsEvent(sink[i]) => HasLayout(sink[i].line, args.extra_fields)
                   /\ (~IsEvent(sink[i]) /\ file)
                         => IsHeaderEntry(sink[i], args.extra_fields))
    /\ [][pc # "from_args" => opts' = opts]_vars
    /\ [][\A c \in CPUs : SampleStep(c) =>
            LET e == copy_from_bytes(HandedBuffer(c))
                x == args.extra_fields
            IN
            /\ Cardinality(NewLines) <= 1
            /\ \A line \in NewLines :
                  /\ HasLayout(line, x)
                  /\ IsInt(Col(line, x, "UID"), e.uid)
                  /\ IsInt(Col(line, x, "PID"), e.tgid)
                  /\ IsText(Col(line, x, "COMM"), trim_end_matches_nul(e.comm))
                  /\ IsInt(Col(line, x, "CAP"), e.cap)
                  /\ IsWord(Col(line, x, "AUDIT"), TrueFalse(e.audit))
                  /\ x => /\ IsInt(Col(line, x, "TID"), e.pid)
                          /\ IsWord(Col(line, x, "INSETID"), TrueFalse(e.insetid))
                  /\ Head(ring[c]).buf = 1 =>
                        /\ IsInt(Col(line, x, "UID"), 0)
                        /\ IsInt(Col(line, x, "PID"), 100)
                        /\ IsText(Col(line, x, "COMM"), << 105, 110, 105, 116 >>)
                        /\ IsInt(Col(line, x, "CAP"), 21)
                        /\ IsWord(Col(line, x, "NAME"), "CAP_SYS_ADMIN")
                        /\ IsWord(Col(line, x, "AUDIT"), "true")
                        /\ x => /\ IsInt(Col(line, x, "TID"), 101)
                                /\ IsWord(Col(line, x, "INSETID"), "false")
      ]_vars

\* two events rendered in the extra layout, to both sinks, under the header
C19_Witness ==
    /\ args.extra_fields
    /\ Len(console) = 3
    /\ Len(fs_file.lines) = 3
    /\ IsHeaderEntry(console[1], TRUE)
    /\ IsHeaderEntry(fs_file.lines[1], TRUE)
    /\ \A i \in 2..3 :
          /\ console[i].line = fs_file.lines[i].line
          /\ Len(console[i].line) = 9
          /\ IsInt(console[i].line[3], 100)
          /\ IsInt(console[i].line[4], 101)
          /\ IsWord(console[i].line[7], "CAP_SYS_ADMIN")

--------------------------------------------------------------------------
(* Cgroup filter claim *)

\* C20: the program is never attached with the cgroup filter not installed:
\* once attach has been invoked and has succeeded, index 0 of the cgroup
\* table holds the descriptor of the opened cgroup path, and it keeps holding
\* it, with the descriptor open, through the polling phase.
C20_FilterInstalledWhenAttached ==
    skel = "attached" =>
        /\ cgroup_file # NoFd
        /\ cgroup_map[0] = cgroup_file

==========================================================================
